---- MODULE Spec2Model ----
(***************************************************************************)
(* siuu-bank: the account table of PostgresStore (account_store.go) and    *)
(* the operations of the Storage interface, with Transfer broken into the  *)
(* statements it sends to the database so that concurrent transfers        *)
(* interleave as separate transactions under row-level locks.              *)
(***************************************************************************)
EXTENDS Integers, Sequences, FiniteSets, TLC

\* ---------------------------------------------------------------- bounds
MaxBalance == 1         \* largest balance a caller passes to Create/Update
MaxAmount == 1          \* largest amount a caller passes to Transfer
MaxStoreOps == 2        \* Create/Update/Delete calls in one behaviour

Procs == {1, 2, 3}      \* goroutines that may run Transfer
Callers == {1, 2}       \* the goroutines that call Transfer under Spec
Numbers == {5, 9}       \* account numbers callers use under Spec
LockNumbers == {5, 7, 9}    \* account numbers of the lock-order scenario
Balances == {-1, 0, MaxBalance}
Amounts == 0..MaxAmount

\* The Account values callers pass (names, credential hash, timestamp).
Persons ==
    { [first_name |-> "abhi", last_name |-> "anand",
       encrypted_password |-> "hash1", created_at |-> 1],
      [first_name |-> "cr", last_name |-> "seven",
       encrypted_password |-> "hash2", created_at |-> 2] }

\* the person who opens the account with number n
Holder(n) == CHOOSE p \in Persons : p.created_at = (IF n = 5 THEN 1 ELSE 2)

Min(a, b) == IF a < b THEN a ELSE b
Max(a, b) == IF a < b THEN b ELSE a

VARIABLES
    account,      \* committed rows of table account
    nextId,       \* the SERIAL sequence behind account.id
    nops,         \* number of Create/Update/Delete calls so far
    lastOp,       \* the last Create/Update/Delete call and what it returned
    pc,           \* per goroutine: position inside Transfer
    fromNumber, toNumber, amount,   \* per goroutine: arguments of Transfer
    firstAcc, secondAcc,            \* per goroutine: rows read by getLocked
    locks,        \* per goroutine: ids of the rows its transaction has locked
    writes,       \* per goroutine: uncommitted balance updates <<id, balance>>
    result,       \* per goroutine: what the last Transfer returned
    lockReq,      \* per goroutine: numbers passed to getLocked, in order
    waitsOn,      \* per goroutine: id of the row whose lock it waits for, or 0
    request,      \* per goroutine: the HTTP request it serves
    response,     \* per goroutine: the HTTP response it wrote
    tokens        \* the tokens handleLogin has issued

vars == <<account, nextId, nops, lastOp, pc, fromNumber, toNumber, amount,
          firstAcc, secondAcc, locks, writes, result, lockReq, waitsOn,
          request, response, tokens>>

storeVars == <<account, nextId, nops, lastOp>>
txVars == <<pc, fromNumber, toNumber, amount, firstAcc, secondAcc, locks,
            writes, result, lockReq, waitsOn>>
httpVars == <<request, response, tokens>>

\* ------------------------------------------------------------- constants
ErrInsufficientFunds == "insufficient funds"
ErrInvalidAmount == "invalid transfer amount"
ErrAccountNotFound == "account not found"
ErrUniqueViolation == "unique_violation"
nil == "nil"

\* The opaque error of a failed statement, tagged by the statement.
StorageError ==
    [begin |-> "storage error: begin", lock1 |-> "storage error: select 1",
     lock2 |-> "storage error: select 2", debit |-> "storage error: debit",
     credit |-> "storage error: credit", commit |-> "storage error: commit"]

StorageErrors == {StorageError[k] : k \in DOMAIN StorageError}

NoRow == [id |-> 0, balance |-> 0]
NoOp == [op |-> "none", id |-> 0, err |-> nil]

\* no Authorization header; a goroutine that serves no request; no response
NoToken == [accountNumber |-> 0, alg |-> "", key |-> ""]
NoRequest == [route |-> ""]
NoResponse == 0

\* ---------------------------------------------------------------- table
RowsByNumber(n) == {r \in account : r.number = n}
RowsByID(i) == {r \in account : r.id = i}
TheRow(S) == CHOOSE r \in S : TRUE

\* SELECT without FOR UPDATE: no row is ever found locked
NeverLocked(t, i) == FALSE

\* LOCK TABLE account instead of FOR UPDATE: any open transaction that has
\* locked anything blocks every other one
TableLockedByOther(t, i) == \E u \in Procs \ {t} : locks[u] # {}

\* the goroutine, other than t, whose transaction holds the lock of row i
LockedByOther(t, i) == \E u \in Procs \ {t} : i \in locks[u]
Locked(i) == \E u \in Procs : i \in locks[u]

\* SELECT ... FROM account: the committed rows
GetAccounts == account

\* ------------------------------------------------------------ store ops
\* the table without UNIQUE on number: every INSERT succeeds
CreateAccountNoUnique(acc) ==
    /\ nops < MaxStoreOps
    /\ nops' = nops + 1
    /\ nextId' = nextId + 1
    /\ account' = account \cup
           {[id |-> nextId, first_name |-> acc.first_name,
             last_name |-> acc.last_name, number |-> acc.number,
             encrypted_password |-> acc.encrypted_password,
             balance |-> acc.balance, created_at |-> acc.created_at]}
    /\ lastOp' = [op |-> "CreateAccount", id |-> nextId, err |-> nil]
    /\ UNCHANGED txVars

CreateAccount(acc) ==
    /\ nops < MaxStoreOps
    /\ nops' = nops + 1
    /\ nextId' = nextId + 1
    /\ IF RowsByNumber(acc.number) # {}
       THEN /\ account' = account
            /\ lastOp' = [op |-> "CreateAccount", id |-> 0,
                          err |-> ErrUniqueViolation]
       ELSE /\ account' = account \cup
                   {[id |-> nextId, first_name |-> acc.first_name,
                     last_name |-> acc.last_name, number |-> acc.number,
                     encrypted_password |-> acc.encrypted_password,
                     balance |-> acc.balance, created_at |-> acc.created_at]}
            /\ lastOp' = [op |-> "CreateAccount", id |-> nextId, err |-> nil]
    /\ UNCHANGED txVars

UpdateAccount(acc) ==
    /\ nops < MaxStoreOps
    /\ ~Locked(acc.id)
    /\ nops' = nops + 1
    /\ account' = {IF r.id = acc.id
                   THEN [r EXCEPT !.first_name = acc.first_name,
                                  !.last_name = acc.last_name,
                                  !.encrypted_password = acc.encrypted_password,
                                  !.balance = acc.balance]
                   ELSE r : r \in account}
    /\ lastOp' = [op |-> "UpdateAccount", id |-> acc.id, err |-> nil]
    /\ UNCHANGED <<nextId, txVars>>

DeleteAccount(id) ==
    /\ nops < MaxStoreOps
    /\ ~Locked(id)
    /\ nops' = nops + 1
    /\ account' = {r \in account : r.id # id}
    /\ lastOp' = [op |-> "DeleteAccount", id |-> id, err |-> nil]
    /\ UNCHANGED <<nextId, txVars>>

\* ------------------------------------------------------------- Transfer
\* the rows locked in the order the caller names them
LockOrderAsGiven(t) == <<fromNumber[t], toNumber[t]>>

\* <<first, second>>: the order in which the two rows are locked
LockOrder(t) ==
    IF fromNumber[t] > toNumber[t]
    THEN <<toNumber[t], fromNumber[t]>>
    ELSE <<fromNumber[t], toNumber[t]>>

\* the from-account always locked first
firstIsFrom(t) == fromNumber[t]

first(t) == LockOrder(t)[1]
second(t) == LockOrder(t)[2]

\* the first locked row always taken as the from-account
fromAccIsFirst(t) == firstAcc[t]

fromAcc(t) == IF first(t) = fromNumber[t] THEN firstAcc[t] ELSE secondAcc[t]
toAcc(t) == IF first(t) = fromNumber[t] THEN secondAcc[t] ELSE firstAcc[t]

\* the sufficiency check made on the to-account's balance
InsufficientFundsOfTo(t) == toAcc(t).balance < amount[t]

InsufficientFunds(t) == fromAcc(t).balance < amount[t]

\* only a negative amount refused
NegativeAmount(t) == amount[t] < 0

InvalidAmount(t) == amount[t] <= 0

\* the balance of row i as scanned, whatever t has written since
TxBalanceAsScanned(t, i) == TheRow(RowsByID(i)).balance

\* the balance of row i as transaction t sees it
TxBalance(t, i) ==
    IF \E w \in writes[t] : w[1] = i
    THEN (CHOOSE w \in writes[t] : w[1] = i)[2]
    ELSE TheRow(RowsByID(i)).balance

\* UPDATE account SET balance = balance + d WHERE id = i, inside t
TxUpdate(t, i, d) ==
    IF RowsByID(i) = {}
    THEN writes[t]
    ELSE {w \in writes[t] : w[1] # i} \cup {<<i, TxBalance(t, i) + d>>}

\* the table once t's updates are committed
Committed(t) ==
    {IF \E w \in writes[t] : w[1] = r.id
     THEN [r EXCEPT !.balance = (CHOOSE w \in writes[t] : w[1] = r.id)[2]]
     ELSE r : r \in account}

\* the statements executed outside the transaction: nothing to undo
CommittedAnyway(t) == Committed(t)

\* the table once t's transaction is rolled back
RolledBack(t) == account

\* return err without the deferred tx.Rollback(): an error leaves the
\* transaction open with its locks
ReturnKeepingLocks(t, err) ==
    /\ pc' = [pc EXCEPT ![t] = "done"]
    /\ fromNumber' = [fromNumber EXCEPT ![t] = 0]
    /\ toNumber' = [toNumber EXCEPT ![t] = 0]
    /\ amount' = [amount EXCEPT ![t] = 0]
    /\ result' = [result EXCEPT ![t] = err]
    /\ locks' = [locks EXCEPT ![t] = IF err = nil THEN {} ELSE @]
    /\ writes' = [writes EXCEPT ![t] = IF err = nil THEN {} ELSE @]
    /\ firstAcc' = [firstAcc EXCEPT ![t] = NoRow]
    /\ secondAcc' = [secondAcc EXCEPT ![t] = NoRow]
    /\ waitsOn' = [waitsOn EXCEPT ![t] = 0]
    /\ UNCHANGED httpVars

\* return err: the deferred tx.Rollback() ends the transaction and the
\* arguments and locals go out of scope
Return(t, err) ==
    /\ pc' = [pc EXCEPT ![t] = "done"]
    /\ fromNumber' = [fromNumber EXCEPT ![t] = 0]
    /\ toNumber' = [toNumber EXCEPT ![t] = 0]
    /\ amount' = [amount EXCEPT ![t] = 0]
    /\ result' = [result EXCEPT ![t] = err]
    /\ locks' = [locks EXCEPT ![t] = {}]
    /\ writes' = [writes EXCEPT ![t] = {}]
    /\ firstAcc' = [firstAcc EXCEPT ![t] = NoRow]
    /\ secondAcc' = [secondAcc EXCEPT ![t] = NoRow]
    /\ waitsOn' = [waitsOn EXCEPT ![t] = 0]
    /\ UNCHANGED httpVars

Abort(t, err) ==
    /\ Return(t, err)
    /\ account' = RolledBack(t)
    /\ UNCHANGED <<nextId, nops, lastOp>>

TransferCall(t, from, to, amt) ==
    /\ pc[t] = "idle"
    /\ pc' = [pc EXCEPT ![t] = "called"]
    /\ fromNumber' = [fromNumber EXCEPT ![t] = from]
    /\ toNumber' = [toNumber EXCEPT ![t] = to]
    /\ amount' = [amount EXCEPT ![t] = amt]
    /\ result' = [result EXCEPT ![t] = nil]
    /\ lockReq' = [lockReq EXCEPT ![t] = <<>>]
    /\ UNCHANGED <<storeVars, firstAcc, secondAcc, locks, writes, waitsOn>>

RejectAmount(t) ==
    /\ pc[t] = "called"
    /\ InvalidAmount(t)
    /\ pc' = [pc EXCEPT ![t] = "done"]
    /\ result' = [result EXCEPT ![t] = ErrInvalidAmount]
    /\ fromNumber' = [fromNumber EXCEPT ![t] = 0]
    /\ toNumber' = [toNumber EXCEPT ![t] = 0]
    /\ amount' = [amount EXCEPT ![t] = 0]
    /\ UNCHANGED <<storeVars, firstAcc, secondAcc, locks, writes, lockReq,
                   waitsOn, httpVars>>

Begin(t) ==
    /\ pc[t] = "called"
    /\ ~InvalidAmount(t)
    /\ pc' = [pc EXCEPT ![t] = "lock1"]
    /\ UNCHANGED <<storeVars, fromNumber, toNumber, amount, firstAcc,
                   secondAcc, locks, writes, result, lockReq, waitsOn,
                   httpVars>>

\* getLocked(number): the k-th call, k = 1 for first and 2 for second
LockNumber(t, k) == IF k = 1 THEN first(t) ELSE second(t)
LockPc(k) == IF k = 1 THEN "lock1" ELSE "lock2"
WaitPc(k) == IF k = 1 THEN "wait1" ELSE "wait2"
AfterPc(k) == IF k = 1 THEN "lock2" ELSE "check"

\* the row is scanned by s.db.QueryRow, outside the transaction: the lock
\* of the SELECT is gone when the statement ends
ScannedOutsideTx(t, k, r) ==
    /\ locks' = locks
    /\ IF k = 1
       THEN /\ firstAcc' = [firstAcc EXCEPT ![t] =
                               [id |-> r.id, balance |-> TxBalance(t, r.id)]]
            /\ UNCHANGED secondAcc
       ELSE /\ secondAcc' = [secondAcc EXCEPT ![t] =
                               [id |-> r.id, balance |-> TxBalance(t, r.id)]]
            /\ UNCHANGED firstAcc
    /\ pc' = [pc EXCEPT ![t] = AfterPc(k)]
    /\ waitsOn' = [waitsOn EXCEPT ![t] = 0]
    /\ UNCHANGED <<storeVars, fromNumber, toNumber, amount, writes, result,
                   httpVars>>

\* the row is locked and scanned into accRow
Scanned(t, k, r) ==
    /\ locks' = [locks EXCEPT ![t] = @ \cup {r.id}]
    /\ IF k = 1
       THEN /\ firstAcc' = [firstAcc EXCEPT ![t] =
                               [id |-> r.id, balance |-> TxBalance(t, r.id)]]
            /\ UNCHANGED secondAcc
       ELSE /\ secondAcc' = [secondAcc EXCEPT ![t] =
                               [id |-> r.id, balance |-> TxBalance(t, r.id)]]
            /\ UNCHANGED firstAcc
    /\ pc' = [pc EXCEPT ![t] = AfterPc(k)]
    /\ waitsOn' = [waitsOn EXCEPT ![t] = 0]
    /\ UNCHANGED <<storeVars, fromNumber, toNumber, amount, writes, result,
                   httpVars>>

getLocked(t, k) ==
    /\ pc[t] = LockPc(k)
    /\ lockReq' = [lockReq EXCEPT ![t] = Append(@, LockNumber(t, k))]
    /\ LET rows == RowsByNumber(LockNumber(t, k)) IN
       IF rows = {}
       THEN Abort(t, ErrAccountNotFound)
       ELSE IF LockedByOther(t, TheRow(rows).id)
            THEN /\ pc' = [pc EXCEPT ![t] = WaitPc(k)]
                 /\ waitsOn' = [waitsOn EXCEPT ![t] = TheRow(rows).id]
                 /\ UNCHANGED <<storeVars, fromNumber, toNumber, amount,
                                firstAcc, secondAcc, locks, writes, result,
                                httpVars>>
            ELSE Scanned(t, k, TheRow(rows))

\* the transaction holding the row has ended: the waiting SELECT resumes on
\* the row it found, which may have been deleted in the meantime
getLockedResume(t, k) ==
    /\ pc[t] = WaitPc(k)
    /\ UNCHANGED lockReq
    /\ LET rows == RowsByID(waitsOn[t]) IN
       IF rows = {}
       THEN Abort(t, ErrAccountNotFound)
       ELSE /\ ~LockedByOther(t, waitsOn[t])
            /\ Scanned(t, k, TheRow(rows))

RejectFunds(t) ==
    /\ pc[t] = "check"
    /\ InsufficientFunds(t)
    /\ Abort(t, ErrInsufficientFunds)
    /\ UNCHANGED lockReq

Debit(t) ==
    /\ pc[t] = "check"
    /\ ~InsufficientFunds(t)
    /\ writes' = [writes EXCEPT ![t] = TxUpdate(t, fromAcc(t).id, -amount[t])]
    /\ pc' = [pc EXCEPT ![t] = "credit"]
    /\ UNCHANGED <<storeVars, fromNumber, toNumber, amount, firstAcc,
                   secondAcc, locks, result, lockReq, waitsOn, httpVars>>

\* the credit without its WHERE clause: UPDATE account SET balance =
\* balance + $1 reaches every row
CreditEveryRow(t) ==
    /\ pc[t] = "credit"
    /\ writes' = [writes EXCEPT ![t] =
                     {<<r.id, TxBalance(t, r.id) + amount[t]>> : r \in account}]
    /\ pc' = [pc EXCEPT ![t] = "commit"]
    /\ UNCHANGED <<storeVars, fromNumber, toNumber, amount, firstAcc,
                   secondAcc, locks, result, lockReq, waitsOn, httpVars>>

Credit(t) ==
    /\ pc[t] = "credit"
    /\ writes' = [writes EXCEPT ![t] = TxUpdate(t, toAcc(t).id, amount[t])]
    /\ pc' = [pc EXCEPT ![t] = "commit"]
    /\ UNCHANGED <<storeVars, fromNumber, toNumber, amount, firstAcc,
                   secondAcc, locks, result, lockReq, waitsOn, httpVars>>

Commit(t) ==
    /\ pc[t] = "commit"
    /\ account' = Committed(t)
    /\ Return(t, nil)
    /\ UNCHANGED <<nextId, nops, lastOp, lockReq>>

\* the statement t is about to send, or is waiting on
Statement(t) ==
    CASE pc[t] = "called" -> "begin"
      [] pc[t] \in {"lock1", "wait1"} -> "lock1"
      [] pc[t] \in {"lock2", "wait2"} -> "lock2"
      [] pc[t] = "check" -> "debit"
      [] pc[t] = "credit" -> "credit"
      [] pc[t] = "commit" -> "commit"
      [] OTHER -> "none"

\* a statement fails with an error other than sql.ErrNoRows
StorageFault(t) ==
    /\ Statement(t) # "none"
    /\ pc[t] = "called" => ~InvalidAmount(t)
    /\ pc[t] = "check" => ~InsufficientFunds(t)
    /\ Abort(t, StorageError[Statement(t)])
    /\ UNCHANGED lockReq

\* the steps of Transfer from db.Begin() on
TxStep(t) ==
    \/ Begin(t)
    \/ \E k \in {1, 2} : getLocked(t, k)
    \/ \E k \in {1, 2} : getLockedResume(t, k)
    \/ RejectFunds(t)
    \/ Debit(t)
    \/ Credit(t)
    \/ Commit(t)

TransferStep(t) == RejectAmount(t) \/ TxStep(t)

\* ------------------------------------------------------------ credentials
\* golang.org/x/crypto/bcrypt as NewAccount and ValidPassword call it.  The
\* Blowfish key is the password followed by a 0 byte, read cyclically for
\* the 18 32-bit words of the key schedule; nothing else of the password
\* enters the digest.  Strings are sequences of bytes.
BcryptKeyBytes == 72
bcryptCost == 10
HashPrefix == <<36, 50, 97, 36>>        \* "$2a$"
ErrMismatchedHashAndPassword == "hashedPassword is not the hash of the given password"
ErrPasswordTooLong == "password length exceeds 72 bytes"
ErrHashTooShort == "hashedSecret too short to be a bcrypted password"

ckey(password) == Append(password, 0)

\* the bytes blowfish.ExpandKey reads from the key
ExpandKey(key) == [i \in 1..BcryptKeyBytes |-> key[((i - 1) % Len(key)) + 1]]

\* the digest: cost, salt and what they and the expanded key determine
bcrypt(password, cost, salt) == <<cost, salt>> \o ExpandKey(ckey(password))

GenerateFromPassword(password, cost, salt) ==
    IF Len(password) > BcryptKeyBytes
    THEN [err |-> ErrPasswordTooLong, hash |-> <<>>]
    ELSE [err |-> nil, hash |-> HashPrefix \o bcrypt(password, cost, salt)]

CompareHashAndPassword(hashedPassword, password) ==
    IF Len(hashedPassword) < Len(HashPrefix) + 2 + BcryptKeyBytes
    THEN ErrHashTooShort
    ELSE LET cost == hashedPassword[Len(HashPrefix) + 1]
             salt == hashedPassword[Len(HashPrefix) + 2]
         IN  IF HashPrefix \o bcrypt(password, cost, salt) = hashedPassword
             THEN nil
             ELSE ErrMismatchedHashAndPassword

ValidPassword(a, pw) == CompareHashAndPassword(a.encrypted_password, pw) = nil

\* NewAccount with the salt and the number it draws and the time it reads
NewAccount(firstName, lastName, password, salt, number, now) ==
    LET encpw == GenerateFromPassword(password, bcryptCost, salt) IN
    IF encpw.err # nil
    THEN [err |-> encpw.err, account |-> NoRow]
    ELSE [err |-> nil,
          account |-> [first_name |-> firstName, last_name |-> lastName,
                       encrypted_password |-> encpw.hash, number |-> number,
                       balance |-> 0, created_at |-> now]]

\* the passwords clients type: "a", "a\x00a" and "b"
Passwords == {<<97>>, <<97, 0, 97>>, <<98>>}
Salts == {1, 2}
PasswordOf(n) == IF n = 5 THEN <<97>> ELSE <<98>>

\* ------------------------------------------------------------------ tokens
JWTSecret == "JWT_SECRET"

createJWT(a) ==
    [accountNumber |-> a.number, alg |-> "HS256", key |-> JWTSecret]

\* err == nil && token.Valid
validateJWT(token) == token.alg = "HS256" /\ token.key = JWTSecret

\* tokens a client can make without the secret
ForgedTokens ==
    {[accountNumber |-> 5, alg |-> "HS256", key |-> "guess"],
     [accountNumber |-> 5, alg |-> "none", key |-> ""]}

\* what a client can send as its token
Presentable == tokens \cup ForgedTokens \cup {NoToken}

\* -------------------------------------------------------------- API server
StatusOK == 200
StatusCreated == 201
StatusBadRequest == 400
StatusUnauthorized == 401
StatusMethodNotAllowed == 405
StatusConflict == 409

NoError == [http |-> FALSE, code |-> 0, msg |-> nil]
newHTTPError(code, msg) == [http |-> TRUE, code |-> code, msg |-> msg]
\* an error that is not an httpError
plainError(msg) == [http |-> FALSE, code |-> 0, msg |-> msg]

\* the status makeHTTPHandleFunc leaves on the response when the handler
\* wrote status ok or returned err
makeHTTPHandleFunc(err, ok) ==
    IF err = NoError THEN ok
    ELSE IF err.http THEN err.code
    ELSE StatusBadRequest

\* the status withJWTAuth writes instead of calling the handler, or 0
withJWTAuth(r) ==
    IF r.token = NoToken THEN StatusUnauthorized
    ELSE IF ~validateJWT(r.token) THEN StatusUnauthorized
    ELSE 0

\* goroutine t has no request yet; net/http starts one goroutine for each
\* request, numbered here in the order the requests arrive
Fresh(t) ==
    /\ request[t] = NoRequest
    /\ pc[t] = "idle"
    /\ \A u \in Procs : u < t => request[u] # NoRequest

\* the status written for request r
Respond(t, r, status) ==
    /\ request' = [request EXCEPT ![t] = r]
    /\ response' = [response EXCEPT ![t] = status]

handleLogin(t, r) ==
    /\ Fresh(t)
    /\ r.route = "/login"
    /\ LET rows == RowsByNumber(r.number)
           err == IF r.method # "POST"
                  THEN newHTTPError(StatusMethodNotAllowed, "method not allowed")
                  ELSE IF rows = {}
                  THEN plainError("account with number not found")
                  ELSE IF ~ValidPassword(TheRow(rows), r.password)
                  THEN newHTTPError(StatusUnauthorized, "invalid credentials")
                  ELSE NoError
           token == IF err = NoError THEN createJWT(TheRow(rows)) ELSE NoToken
       IN  /\ Respond(t, r, makeHTTPHandleFunc(err, StatusOK))
           /\ tokens' = IF err = NoError THEN tokens \cup {token} ELSE tokens
    /\ UNCHANGED <<storeVars, txVars>>

handleCreateAccount(t, r, salt, number, now) ==
    /\ Fresh(t)
    /\ r.route = "/account" /\ r.method = "POST"
    /\ LET new == NewAccount(Holder(number).first_name,
                             Holder(number).last_name, r.password, salt,
                             number, now)
       IN  IF new.err # nil
           THEN /\ Respond(t, r, makeHTTPHandleFunc(plainError(new.err),
                                                    StatusCreated))
                /\ UNCHANGED <<storeVars, txVars>>
           ELSE /\ CreateAccount(new.account)
                /\ Respond(t, r,
                           makeHTTPHandleFunc(
                               IF lastOp'.err = nil THEN NoError
                               ELSE plainError(lastOp'.err), StatusCreated))
    /\ UNCHANGED tokens

handleGetAccountByID(t, r) ==
    /\ Fresh(t)
    /\ r.route = "/account/{id}"
    /\ IF withJWTAuth(r) # 0
       THEN /\ Respond(t, r, withJWTAuth(r))
            /\ UNCHANGED <<storeVars, txVars>>
       ELSE IF r.method = "GET"
       THEN /\ Respond(t, r,
                       makeHTTPHandleFunc(
                           IF RowsByID(r.id) = {}
                           THEN plainError("account not found")
                           ELSE NoError, StatusOK))
            /\ UNCHANGED <<storeVars, txVars>>
       ELSE IF r.method = "DELETE"
       THEN /\ DeleteAccount(r.id)
            /\ Respond(t, r,
                       makeHTTPHandleFunc(
                           IF lastOp'.err = nil THEN NoError
                           ELSE plainError(lastOp'.err), StatusOK))
       ELSE /\ Respond(t, r,
                       makeHTTPHandleFunc(
                           newHTTPError(StatusMethodNotAllowed,
                                        "method not allowed"), StatusOK))
            /\ UNCHANGED <<storeVars, txVars>>
    /\ UNCHANGED tokens

\* fromNumber taken from the request body
fromAccountOfBody(r) == r.fromAccount

\* fromNumber := int64(claims["accountNumber"].(float64))
claimsAccountNumber(r) == r.token.accountNumber

\* handleTransfer up to the call of s.store.Transfer
handleTransfer(t, r) ==
    /\ Fresh(t)
    /\ r.route = "/transfer"
    /\ IF withJWTAuth(r) # 0
       THEN /\ Respond(t, r, withJWTAuth(r))
            /\ UNCHANGED <<storeVars, txVars>>
       ELSE IF r.amount <= 0
       THEN /\ Respond(t, r,
                       makeHTTPHandleFunc(
                           newHTTPError(StatusBadRequest,
                                        "invalid transfer amount"), StatusOK))
            /\ UNCHANGED <<storeVars, txVars>>
       ELSE /\ TransferCall(t, claimsAccountNumber(r), r.toAccount, r.amount)
            /\ request' = [request EXCEPT ![t] = r]
            /\ UNCHANGED response
    /\ UNCHANGED tokens

\* the error handleTransfer returns for what s.store.Transfer returned
transferError(err) ==
    IF err = nil THEN NoError
    ELSE IF err = ErrInsufficientFunds
    THEN newHTTPError(StatusConflict, "insufficient funds")
    ELSE plainError(err)

\* handleTransfer from the return of s.store.Transfer
handleTransferReturn(t) ==
    /\ request[t].route = "/transfer"
    /\ pc[t] = "done"
    /\ response[t] = NoResponse
    /\ response' = [response EXCEPT ![t] =
                       makeHTTPHandleFunc(transferError(result[t]), StatusOK)]
    /\ UNCHANGED <<storeVars, txVars, request, tokens>>

\* ------------------------------------------------------------------ spec
Init ==
    /\ account = {}
    /\ nextId = 1
    /\ nops = 0
    /\ lastOp = NoOp
    /\ pc = [t \in Procs |-> "idle"]
    /\ fromNumber = [t \in Procs |-> 0]
    /\ toNumber = [t \in Procs |-> 0]
    /\ amount = [t \in Procs |-> 0]
    /\ firstAcc = [t \in Procs |-> NoRow]
    /\ secondAcc = [t \in Procs |-> NoRow]
    /\ locks = [t \in Procs |-> {}]
    /\ writes = [t \in Procs |-> {}]
    /\ result = [t \in Procs |-> nil]
    /\ lockReq = [t \in Procs |-> <<>>]
    /\ waitsOn = [t \in Procs |-> 0]
    /\ request = [t \in Procs |-> NoRequest]
    /\ response = [t \in Procs |-> NoResponse]
    /\ tokens = {}

\* the Storage interface called directly, with no HTTP request in flight;
\* an update of an odd id carries the second person's names, of an even id
\* the first person's
Next ==
    \/ /\ \E n \in Numbers, b \in Balances : LET p == Holder(n) IN
             CreateAccount([first_name |-> p.first_name,
                            last_name |-> p.last_name, number |-> n,
                            encrypted_password |-> p.encrypted_password,
                            balance |-> b, created_at |-> p.created_at])
       /\ UNCHANGED httpVars
    \/ /\ \E i \in 1..MaxStoreOps, b \in Balances :
             LET p == Holder(IF i % 2 = 1 THEN 9 ELSE 5) IN
             UpdateAccount([id |-> i, first_name |-> p.first_name,
                            last_name |-> p.last_name,
                            encrypted_password |-> p.encrypted_password,
                            balance |-> b])
       /\ UNCHANGED httpVars
    \/ /\ \E i \in 1..MaxStoreOps : DeleteAccount(i)
       /\ UNCHANGED httpVars
    \/ /\ \E t \in Callers, from \in Numbers, to \in Numbers, amt \in Amounts :
             TransferCall(t, from, to, amt)
       /\ UNCHANGED httpVars
    \/ \E t \in Procs : TransferStep(t)
    \/ \E t \in Procs : StorageFault(t)

Spec == Init /\ [][Next]_vars

\* --------------------------------------------------- concurrent scenarios
\* a row of the table as CreateAccount stores it
Row(i, n, b) ==
    [id |-> i, first_name |-> Holder(n).first_name,
     last_name |-> Holder(n).last_name, number |-> n,
     encrypted_password |-> Holder(n).encrypted_password,
     balance |-> b, created_at |-> Holder(n).created_at]

\* the transfers below run against a healthy store and no other operation
NextTx == \E t \in Procs : TxStep(t)

TxInit ==
    /\ nextId = Cardinality(account) + 1
    /\ nops = 0
    /\ lastOp = NoOp
    /\ pc = [t \in Procs |-> "called"]
    /\ firstAcc = [t \in Procs |-> NoRow]
    /\ secondAcc = [t \in Procs |-> NoRow]
    /\ locks = [t \in Procs |-> {}]
    /\ writes = [t \in Procs |-> {}]
    /\ result = [t \in Procs |-> nil]
    /\ lockReq = [t \in Procs |-> <<>>]
    /\ waitsOn = [t \in Procs |-> 0]
    /\ request = [t \in Procs |-> NoRequest]
    /\ response = [t \in Procs |-> NoResponse]
    /\ tokens = {}

\* N transfers of one amount between accounts 5 and 9, alternating direction
ConcTotal == MaxBalance + 1

InitConc ==
    /\ \E a \in 0..ConcTotal :
          account = {Row(1, 5, a), Row(2, 9, ConcTotal - a)}
    /\ \E m \in 1..MaxAmount : amount = [t \in Procs |-> m]
    /\ fromNumber = [t \in Procs |-> IF t % 2 = 1 THEN 5 ELSE 9]
    /\ toNumber = [t \in Procs |-> IF t % 2 = 1 THEN 9 ELSE 5]
    /\ TxInit

SpecConc == InitConc /\ [][NextTx]_vars

\* any transfers over three accounts, in any directions; the goroutines run
\* the same code, so they are numbered in the order of their arguments
PairKey(t) == 10 * fromNumber[t] + toNumber[t]

InitLocks ==
    /\ account = {Row(1, 5, MaxBalance), Row(2, 7, MaxBalance),
                  Row(3, 9, MaxBalance)}
    /\ \E m \in 1..MaxAmount : amount = [t \in Procs |-> m]
    /\ fromNumber \in [Procs -> LockNumbers]
    /\ toNumber \in [Procs -> LockNumbers]
    /\ \A t, u \in Procs : t < u => PairKey(t) <= PairKey(u)
    /\ TxInit

\* the store grants a released row lock to a waiting transaction, and a
\* goroutine inside Transfer keeps running
SpecLocks ==
    /\ InitLocks
    /\ [][NextTx]_vars
    /\ \A t \in Procs : WF_vars(TxStep(t))

\* transfers that all debit account 5, any two of them for more than it
\* holds together, to accounts 7 and 9
InitSpend ==
    /\ \E a \in 1..MaxBalance :
          /\ account = {Row(1, 5, a), Row(2, 7, 0), Row(3, 9, 0)}
          /\ amount \in [Procs -> 1..MaxAmount]
          /\ \A t \in Procs : amount[t] <= a
          /\ \A t, u \in Procs : t # u => amount[t] + amount[u] > a
    /\ fromNumber = [t \in Procs |-> 5]
    /\ toNumber \in [Procs -> {7, 9}]
    /\ TxInit

SpecSpend == InitSpend /\ [][NextTx]_vars

\* any transfers of one amount over accounts 5 and 7, of any balances, and
\* the number 9, which no account has
InitSerial ==
    /\ \E a, b \in 0..MaxBalance : account = {Row(1, 5, a), Row(2, 7, b)}
    /\ \E m \in 1..MaxAmount : amount = [t \in Procs |-> m]
    /\ fromNumber \in [Procs -> LockNumbers]
    /\ toNumber \in [Procs -> LockNumbers]
    /\ \A t, u \in Procs : t < u => PairKey(t) <= PairKey(u)
    /\ TxInit

SpecSerial == InitSerial /\ [][NextTx]_vars

\* goroutine 1 transfers between 5 and 7, goroutine 2 between 9 and 11 and
\* goroutine 3 between any two of the four; every account can pay the
\* others' amount twice, and goroutine 3 may ask for more than that
DisjointNumbers == {5, 7, 9, 11}
DisjointFunds == 2 * MaxAmount

InitDisjoint ==
    /\ account = {Row(1, 5, DisjointFunds), Row(2, 7, DisjointFunds),
                  Row(3, 9, DisjointFunds), Row(4, 11, DisjointFunds)}
    /\ \E m \in 1..MaxAmount : \E n \in {m, DisjointFunds + 1} :
          amount = [t \in Procs |-> IF t = 3 THEN n ELSE m]
    /\ fromNumber \in [Procs -> DisjointNumbers]
    /\ toNumber \in [Procs -> DisjointNumbers]
    /\ {fromNumber[1], toNumber[1]} = {5, 7}
    /\ {fromNumber[2], toNumber[2]} = {9, 11}
    /\ TxInit

SpecDisjoint == InitDisjoint /\ [][NextTx]_vars

\* ------------------------------------------------------------ API requests
\* the account number n has after POST /account and a deposit of b
StoredAccount(i, n, b) ==
    LET a == NewAccount(Holder(n).first_name, Holder(n).last_name,
                        PasswordOf(n), 1, n, i).account
    IN  [id |-> i, first_name |-> a.first_name, last_name |-> a.last_name,
         number |-> a.number, encrypted_password |-> a.encrypted_password,
         balance |-> b, created_at |-> a.created_at]

\* two accounts, nobody logged in, every goroutine free for a request
InitHTTP ==
    /\ \E a \in {0, MaxBalance} :
          account = {StoredAccount(1, 5, a), StoredAccount(2, 9, MaxBalance)}
    /\ nextId = 3
    /\ nops = 0
    /\ lastOp = NoOp
    /\ pc = [t \in Procs |-> "idle"]
    /\ fromNumber = [t \in Procs |-> 0]
    /\ toNumber = [t \in Procs |-> 0]
    /\ amount = [t \in Procs |-> 0]
    /\ firstAcc = [t \in Procs |-> NoRow]
    /\ secondAcc = [t \in Procs |-> NoRow]
    /\ locks = [t \in Procs |-> {}]
    /\ writes = [t \in Procs |-> {}]
    /\ result = [t \in Procs |-> nil]
    /\ lockReq = [t \in Procs |-> <<>>]
    /\ waitsOn = [t \in Procs |-> 0]
    /\ request = [t \in Procs |-> NoRequest]
    /\ response = [t \in Procs |-> NoResponse]
    /\ tokens = {}

\* the routes of APIServer.Run, one goroutine per request
NextHTTP ==
    \/ \E t \in Procs, n \in Numbers, p \in Passwords :
          handleLogin(t, [route |-> "/login", number |-> n, password |-> p,
                          method |-> "POST"])
    \/ \E t \in Procs, p \in Passwords, salt \in Salts, n \in Numbers :
          handleCreateAccount(t, [route |-> "/account", password |-> p,
                                  method |-> "POST"], salt, n, nextId)
    \/ \E t \in Procs, m \in {"GET", "DELETE"}, i \in 1..2,
          tok \in Presentable :
          handleGetAccountByID(t, [route |-> "/account/{id}", id |-> i,
                                   token |-> tok, method |-> m])
    \/ \E t \in Procs, tok \in Presentable, to \in Numbers, amt \in Amounts :
          \E from \in Numbers \ {tok.accountNumber} :
          handleTransfer(t, [route |-> "/transfer", amount |-> amt,
                             token |-> tok, method |-> "POST",
                             fromAccount |-> from, toAccount |-> to])
    \/ \E t \in Procs : TxStep(t)
    \/ \E t \in Procs : StorageFault(t)
    \/ \E t \in Procs : handleTransferReturn(t)

SpecHTTP == InitHTTP /\ [][NextHTTP]_vars

\* ---------------------------------------------------------------- claims
Has(tbl, n) == \E r \in tbl : r.number = n
IDs(tbl) == {r.id : r \in tbl}
BalanceOf(tbl, n) == (CHOOSE r \in tbl : r.number = n).balance
InTx == {"lock1", "wait1", "lock2", "wait2", "check", "credit", "commit"}

\* the step in which Transfer of goroutine t returns err
Returns(t, err) == pc[t] # "done" /\ pc'[t] = "done" /\ result'[t] = err

\* C1: when Transfer(A, B, m) between two distinct accounts with committed
\* balances a and b and 0 < m <= a commits, A's balance becomes a - m, B's
\* becomes b + m, and the sum of the two is the same as before.
C1_TransferMovesAmount ==
    [][\A t \in Procs :
         LET A == fromNumber[t]
             B == toNumber[t]
             m == amount[t]
         IN  (/\ Returns(t, nil)
              /\ A # B
              /\ Has(account, A) /\ Has(account, B)
              /\ 0 < m /\ m <= BalanceOf(account, A))
             => /\ Has(account', A) /\ Has(account', B)
                /\ BalanceOf(account', A) = BalanceOf(account, A) - m
                /\ BalanceOf(account', B) = BalanceOf(account, B) + m
                /\ BalanceOf(account', A) + BalanceOf(account', B)
                     = BalanceOf(account, A) + BalanceOf(account, B)]_vars

\* a transfer between two accounts has committed and left a balance larger
\* than any balance a caller of CreateAccount or UpdateAccount passes
C1_Witness ==
    \E t \in Procs :
        /\ pc[t] = "done" /\ result[t] = nil
        /\ Len(lockReq[t]) = 2 /\ lockReq[t][1] # lockReq[t][2]
        /\ \E r \in account : r.balance > MaxBalance

\* C2: in every committed state every account's balance is >= 0.
C2_BalanceNonNegative == \A r \in account : r.balance >= 0

\* C3: a transfer whose amount exceeds the from-account's balance, read
\* under the row lock, returns ErrInsufficientFunds, its transaction is
\* rolled back and no balance changes.
C3_InsufficientFundsAborts ==
    [][\A t \in Procs :
         (/\ pc[t] = "check"
          /\ pc'[t] # pc[t]
          /\ Has(account, fromNumber[t])
          /\ amount[t] > BalanceOf(account, fromNumber[t]))
         => /\ Returns(t, ErrInsufficientFunds)
            /\ account' = account
            /\ locks'[t] = {}
            /\ writes'[t] = {}]_vars

C3_Witness ==
    \E t \in Procs :
        /\ pc[t] = "done" /\ result[t] = ErrInsufficientFunds
        /\ Len(lockReq[t]) = 2 /\ lockReq[t][1] # lockReq[t][2]
        /\ Has(account, lockReq[t][1]) /\ Has(account, lockReq[t][2])

\* t waits for a row lock that u holds
WaitsFor(t, u) ==
    /\ t # u
    /\ pc[t] \in {"wait1", "wait2"}
    /\ waitsOn[t] \in locks[u]

\* the goroutines t waits for, directly or through at most n others
RECURSIVE WaitChain(_, _)
WaitChain(t, n) ==
    IF n = 0
    THEN {}
    ELSE LET S == WaitChain(t, n - 1) IN
         {u \in Procs : WaitsFor(t, u) \/ \E v \in S : WaitsFor(v, u)}

NoWaitCycle == \A t \in Procs : t \notin WaitChain(t, Cardinality(Procs))

\* C4: no state has a cycle of transfers each waiting for a row lock held
\* by the next, and every transfer that has begun eventually returns.
C4_NoDeadlock ==
    /\ []NoWaitCycle
    /\ \A t \in Procs : (pc[t] \in InTx) ~> (pc[t] = "done")

C4_Witness ==
    \E t, u \in Procs :
        /\ WaitsFor(t, u)
        /\ fromNumber[t] = toNumber[u] /\ toNumber[t] = fromNumber[u]
        /\ fromNumber[t] # toNumber[t]

\* C5: once N concurrent transfers of one amount between two accounts, in
\* alternating directions, have all returned, the two balances add up to
\* what they added up to at the start and every transfer returned nil or
\* ErrInsufficientFunds.
AllDone == \A t \in Procs : pc[t] = "done"
Successes == Cardinality({t \in Procs : result[t] = nil})
Refusals == Cardinality({t \in Procs : result[t] = ErrInsufficientFunds})

C5_ConcurrentSumConserved ==
    AllDone =>
        /\ BalanceOf(account, 5) + BalanceOf(account, 9) = ConcTotal
        /\ \A t \in Procs : result[t] \in {nil, ErrInsufficientFunds}
        /\ Successes = Cardinality(Procs) - Refusals

C5_Witness == AllDone /\ Successes >= 2 /\ Refusals >= 1

\* C6: Transfer asks for the row lock of min(from, to) first and for the
\* lock of max(from, to) only once it holds the first, whichever of the two
\* is the from-account.
C6_LockOrder ==
    \A t \in Procs :
        LET q == lockReq[t]
            lo == Min(fromNumber[t], toNumber[t])
            hi == Max(fromNumber[t], toNumber[t])
        IN  /\ Len(q) <= 2
            /\ pc[t] \in InTx =>
                  /\ Len(q) >= 1 => q[1] = lo
                  /\ Len(q) = 2 => q[2] = hi
                  /\ Len(q) = 2 =>
                        \E r \in account : r.number = lo /\ r.id \in locks[t]

C6_Witness ==
    \E t \in Procs :
        /\ fromNumber[t] > toNumber[t]
        /\ lockReq[t] = <<toNumber[t], fromNumber[t]>>
        /\ pc[t] = "commit"

\* the table after amount m has moved from number f to number g
Moved(tbl, f, g, m) ==
    {IF r.number = f /\ r.number # g THEN [r EXCEPT !.balance = @ - m]
     ELSE IF r.number = g /\ r.number # f THEN [r EXCEPT !.balance = @ + m]
     ELSE r : r \in tbl}

\* C7: a step of Transfer changes the committed table only when it returns
\* nil, and then by the debit and the credit together; when it returns an
\* error its transaction is rolled back.
C7_AllOrNothing ==
    [][\A t \in Procs :
         pc'[t] # pc[t] =>
            /\ IF Returns(t, nil)
               THEN account' = Moved(account, fromNumber[t], toNumber[t],
                                     amount[t])
               ELSE account' = account
            /\ pc'[t] = "done" => locks'[t] = {} /\ writes'[t] = {}]_vars

C7_Witness ==
    \E t \in Procs :
        /\ pc[t] = "done" /\ result[t] = StorageError.credit
        /\ Len(lockReq[t]) = 2 /\ lockReq[t][1] # lockReq[t][2]

\* C8: Transfer of an amount <= 0 returns the invalid-amount error without
\* opening a transaction, asking for a lock or changing the store.
C8_InvalidAmountRejected ==
    [][\A t \in Procs :
         (pc[t] = "called" /\ amount[t] <= 0 /\ pc'[t] # pc[t])
         => /\ Returns(t, ErrInvalidAmount)
            /\ storeVars' = storeVars
            /\ locks' = locks
            /\ writes' = writes
            /\ lockReq'[t] = <<>>]_vars

C8_Witness ==
    \E t \in Procs :
        /\ pc[t] = "done" /\ result[t] = ErrInvalidAmount
        /\ lockReq[t] = <<>>
        /\ Cardinality(account) = 2

\* C9: when the number Transfer asks a lock for has no row, Transfer
\* returns the account-not-found error (or the error of a failed
\* statement), its transaction is rolled back and no balance changes.
C9_AccountNotFoundAborts ==
    [][\A t \in Procs : \A k \in {1, 2} :
         LET n == IF k = 1 THEN Min(fromNumber[t], toNumber[t])
                           ELSE Max(fromNumber[t], toNumber[t])
         IN  (/\ pc[t] \in (IF k = 1 THEN {"lock1", "wait1"}
                                     ELSE {"lock2", "wait2"})
              /\ pc'[t] # pc[t]
              /\ IF pc[t] \in {"wait1", "wait2"}
                 THEN waitsOn[t] \notin IDs(account)
                 ELSE ~Has(account, n))
             => /\ \/ Returns(t, ErrAccountNotFound)
                   \/ \E e \in StorageErrors : Returns(t, e)
                /\ account' = account
                /\ locks'[t] = {}
                /\ writes'[t] = {}]_vars

C9_Witness ==
    \E t \in Procs :
        /\ pc[t] = "done" /\ result[t] = ErrAccountNotFound
        /\ Len(lockReq[t]) = 2
        /\ Has(account, lockReq[t][1]) /\ ~Has(account, lockReq[t][2])

\* C10: DeleteAccount(id) returns a not-found error when no row has that
\* id, removes the row otherwise, and an id that is gone from GetAccounts
\* never comes back.
ErrNotFound == "not found"

C10_DeleteReportsNotFound ==
    /\ [][(nops' = nops + 1 /\ lastOp'.op = "DeleteAccount") =>
            /\ lastOp'.id \notin IDs(GetAccounts')
            /\ IF lastOp'.id \in IDs(account)
               THEN lastOp'.err = nil
               ELSE lastOp'.err = ErrNotFound]_vars
    /\ [][\A i \in 1..(nextId - 1) :
            i \notin IDs(GetAccounts) => i \notin IDs(GetAccounts')]_vars

\* C13: no two stored accounts have the same number; a CreateAccount call
\* either returns nil and adds one row whose number no stored account had,
\* or returns an error and leaves the stored accounts as they were.
UniqueNumbers == \A r, q \in account : r.number = q.number => r = q

C13_NumberUnique ==
    /\ []UniqueNumbers
    /\ [][(nops' = nops + 1 /\ lastOp'.op = "CreateAccount") =>
            IF lastOp'.err = nil
            THEN \E r \in account' \ account :
                    /\ account' = account \cup {r}
                    /\ ~Has(account, r.number)
            ELSE account' = account]_vars

C13_Witness ==
    /\ lastOp.op = "CreateAccount" /\ lastOp.err = ErrUniqueViolation
    /\ Cardinality(account) = 1

\* C17: a transfer from an account to itself that commits holds the lock
\* of that one row only, although it asks for it twice, and leaves the
\* committed table, and with it the account's balance, as it was.
C17_SelfTransfer ==
    [][\A t \in Procs :
         (Returns(t, nil) /\ fromNumber[t] = toNumber[t])
         => /\ lockReq[t] = <<fromNumber[t], fromNumber[t]>>
            /\ Cardinality(locks[t]) = 1
            /\ Has(account, fromNumber[t])
            /\ amount[t] <= BalanceOf(account, fromNumber[t])
            /\ BalanceOf(account', fromNumber[t])
                 = BalanceOf(account, fromNumber[t])
            /\ account' = account]_vars

C17_Witness ==
    \E t \in Procs :
        /\ pc[t] = "done" /\ result[t] = nil
        /\ Len(lockReq[t]) = 2 /\ lockReq[t][1] = lockReq[t][2]
        /\ \E r \in account : r.number = lockReq[t][1] /\ r.balance >= 1

\* C20: a goroutine that is not inside Transfer, whichever way it returned,
\* holds no row lock, has no uncommitted update and waits for no lock.
C20_NoOpenTransaction ==
    \A t \in Procs :
        pc[t] \in {"idle", "done"} =>
            locks[t] = {} /\ writes[t] = {} /\ waitsOn[t] = 0

\* one transfer has committed and another was aborted by a failed statement
\* after it had locked both rows
C20_Witness ==
    \E t, u \in Procs :
        /\ pc[t] = "done" /\ result[t] = nil /\ Len(lockReq[t]) = 2
        /\ pc[u] = "done" /\ result[u] = StorageError.debit

\* the outcome and the table of Transfer(f, g, m) run alone on table tbl
SerialTransfer(tbl, f, g, m) ==
    IF m <= 0
    THEN [err |-> ErrInvalidAmount, account |-> tbl]
    ELSE IF ~Has(tbl, Min(f, g)) \/ ~Has(tbl, Max(f, g))
    THEN [err |-> ErrAccountNotFound, account |-> tbl]
    ELSE IF BalanceOf(tbl, f) < m
    THEN [err |-> ErrInsufficientFunds, account |-> tbl]
    ELSE [err |-> nil, account |-> Moved(tbl, f, g, m)]

\* C15: in every interleaving of concurrent transfers each transfer takes
\* effect in the step in which it returns, with the outcome and the change
\* it would have if run alone on the committed table of that moment, and
\* no other step changes the table: the run ends with the balances and
\* outcomes of the serial run in the order of return.
C15_Serializable ==
    [][/\ \A t \in Procs :
            (pc[t] # "done" /\ pc'[t] = "done") =>
               LET s == SerialTransfer(account, fromNumber[t], toNumber[t],
                                       amount[t])
               IN  result'[t] = s.err /\ account' = s.account
       /\ (\A t \in Procs : pc'[t] = "done" => pc[t] = "done")
             => account' = account]_vars

\* a committed transfer, one about to commit and one waiting for its lock
C15_Witness ==
    \E t, u, v \in Procs :
        /\ pc[t] = "commit" /\ WaitsFor(u, t)
        /\ pc[v] = "done" /\ result[v] = nil

\* C16: of concurrent transfers that debit one account, each for no more
\* than its balance and any two for more than it, at most one commits, and
\* the balance never falls below zero.
C16_NoDoubleSpend ==
    /\ Cardinality({t \in Procs : pc[t] = "done" /\ result[t] = nil}) <= 1
    /\ BalanceOf(account, 5) >= 0

\* one transfer has committed and every other one was refused
C16_Witness ==
    /\ AllDone
    /\ Successes = 1
    /\ Refusals = Cardinality(Procs) - 1

\* C18: a transfer inside its transaction that cannot take a step waits
\* for a row of one of its own two accounts locked by another transaction;
\* transfers over disjoint pairs never wait for each other, and the two
\* transfers over {5, 7} and {9, 11} both commit.
Pair(t) == {fromNumber[t], toNumber[t]}

C18_DisjointParallel ==
    /\ \A t \in Procs :
          (pc[t] \in InTx /\ ~ENABLED TxStep(t)) =>
             \E u \in Procs \ {t} : \E r \in account :
                r.number \in Pair(t) /\ r.id \in locks[u]
    /\ \A t, u \in Procs : WaitsFor(t, u) => Pair(t) \cap Pair(u) # {}
    /\ \A t \in {1, 2} : pc[t] = "done" => result[t] = nil
    /\ pc[3] = "done" => result[3] \in {nil, ErrInsufficientFunds}

\* the transfers over {5, 7} and {9, 11} hold both their locks at once
C18_Witness ==
    /\ pc[1] = "commit" /\ pc[2] = "commit"
    /\ Pair(1) \cap Pair(2) = {}
    /\ Cardinality(locks[1] \cup locks[2]) = 4

\* the classes of response statuses
ConflictClass(status) == status = StatusConflict
ClientClass(status) == status \in 400..499 /\ status # StatusConflict
GenericFailure(status) == status \in 500..599

\* C11: the response to a transfer that failed with ErrInsufficientFunds
\* is conflict-class; the response to an invalid amount, an account not
\* found or bad credentials is client-class; the response to a transfer
\* that failed with a storage error is a generic failure, not client-class.
C11_ErrorClasses ==
    \A t \in Procs :
        LET r == request[t]
            status == response[t]
        IN  /\ (r.route = "/login" /\ status \notin {0, StatusOK})
                  => ClientClass(status)
            /\ (r.route = "/transfer" /\ status # 0 /\ pc[t] = "idle")
                  => ClientClass(status)
            /\ (r.route = "/transfer" /\ status # 0 /\ pc[t] = "done") =>
                  /\ result[t] = nil => status = StatusOK
                  /\ result[t] = ErrInsufficientFunds => ConflictClass(status)
                  /\ result[t] = ErrAccountNotFound => ClientClass(status)
                  /\ result[t] \in StorageErrors =>
                        GenericFailure(status) /\ ~ClientClass(status)

\* C12: a GET or DELETE on /account/{id} is answered with StatusOK only
\* when the token is valid and bound to the number of the account with
\* that id.
C12_PerAccountAccess ==
    [][\A t \in Procs :
         (/\ request[t] = NoRequest
          /\ request'[t].route = "/account/{id}"
          /\ response'[t] = StatusOK)
         => /\ validateJWT(request'[t].token)
            /\ \E a \in account :
                  /\ a.id = request'[t].id
                  /\ a.number = request'[t].token.accountNumber]_vars

\* C14: a stored credential that NewAccount makes from password p is not
\* p, and ValidPassword is true of it for p and false for every other
\* password.
C14_CredentialSound ==
    \A a \in account : \A p \in Passwords, salt \in Salts :
        LET new == NewAccount(a.first_name, a.last_name, p, salt, a.number,
                              a.created_at)
        IN  (new.err = nil
             /\ new.account.encrypted_password = a.encrypted_password)
            => /\ a.encrypted_password # p
               /\ \A q \in Passwords : ValidPassword(a, q) <=> (q = p)

\* C19: a transfer started by POST /transfer runs with the account number
\* of a validly signed token as fromNumber, and a balance goes down only
\* in the commit of such a transfer, on the account whose number is in the
\* token, a token handleLogin has issued.
C19_DebitsTokenAccount ==
    /\ [](\A t \in Procs :
            (request[t].route = "/transfer" /\ pc[t] \notin {"idle", "done"})
            => /\ validateJWT(request[t].token)
               /\ fromNumber[t] = request[t].token.accountNumber)
    /\ [][\A a \in account : \A b \in account' :
            (b.id = a.id /\ b.balance < a.balance) =>
               \E t \in Procs :
                  /\ Returns(t, nil)
                  /\ request[t].route = "/transfer"
                  /\ request[t].token \in tokens
                  /\ a.number = request[t].token.accountNumber]_vars

\* a transfer has committed whose body named another account to debit
C19_Witness ==
    \E t \in Procs :
        /\ request[t].route = "/transfer"
        /\ response[t] = StatusOK
        /\ request[t].fromAccount # request[t].token.accountNumber
        /\ request[t].toAccount # request[t].token.accountNumber
        /\ BalanceOf(account, request[t].toAccount) > MaxBalance

\* row s is row r but for its balance
SameButBalance(r, s) ==
    /\ s.id = r.id
    /\ s.number = r.number
    /\ s.first_name = r.first_name
    /\ s.last_name = r.last_name
    /\ s.encrypted_password = r.encrypted_password
    /\ s.created_at = r.created_at

\* C21: a step of Transfer(from, to, amount) by goroutine t, committing or
\* aborting, creates and deletes no account, leaves every row whose number
\* is neither from nor to as it was, changes nothing but the balance of
\* the rows of from and to, and changes no row at all when the transfer
\* returns an error.
C21_TransferFrame ==
    [][\A t \in Procs : pc'[t] # pc[t] =>
          /\ Cardinality(account') = Cardinality(account)
          /\ \A r \in account : \E s \in account' :
                /\ SameButBalance(r, s)
                /\ r.number \notin {fromNumber[t], toNumber[t]} => s = r
          /\ (pc'[t] = "done" /\ result'[t] # nil) => account' = account]_vars

\* the transfer over {5, 7} has committed and moved money, the third was
\* refused, and the accounts 9 and 11 it did not name are still there
C21_Witness ==
    /\ pc[1] = "done" /\ result[1] = nil
    /\ BalanceOf(account, 5) # BalanceOf(account, 7)
    /\ pc[3] = "done" /\ result[3] = ErrInsufficientFunds
    /\ BalanceOf(account, 9) = DisjointFunds
    /\ BalanceOf(account, 11) = DisjointFunds

====
